---- MODULE Spec2Model ----
(***************************************************************************)
(* PropClaw prop-firm server: the agent lifecycle and wallet allocation    *)
(* engine of src/src/server.ts (the express handlers /evaluate and /trade, *)
(* the sqlite helpers and the risk-gate constants).                        *)
(*                                                                         *)
(* Node runs one handler segment at a time: the code between two awaits is *)
(* atomic, and any other request may run at an await.  Every action below  *)
(* is one such segment of one request.                                     *)
(*                                                                         *)
(* Money is modelled with integers.  The two profit shares are the         *)
(* source's fractions times Scale, so agent_profit and firm_profit hold    *)
(* the source's values times Scale; floating-point rounding is not         *)
(* modelled.                                                               *)
(***************************************************************************)
EXTENDS Integers, Sequences, FiniteSets

\* ------------------------------------------------------------------ bounds
NEval == 2           \* /evaluate requests of the onboarding specification
NOnboard == 1        \* /evaluate requests of the full specification
NTrade == 1          \* /trade requests of the full specification
NWallets == 1        \* rows of funded_wallets
MaxFills == 2        \* fills the exchange keeps per funded account
MaxSeq == 4          \* length of a closedPnl sequence fed to the ledger
NConc == 2           \* concurrent /trade requests of the trading specification
MaxHistory == 10     \* length of a fill history fed to the analyzer

\* ------------------------------------------------------- program constants
MIN_TRADES == 10
MIN_WINRATE == 45          \* 0.45, in percent
MIN_TOTAL_PNL == -500
MAX_DRAWDOWN == 15         \* 0.15, in percent
MAX_DAILY_TRADES == 50
DRAWDOWN_KILL == 10        \* 0.10, in percent
AGENT_PROFIT_SHARE == 80   \* 0.80, times Scale
FIRM_PROFIT_SHARE == 20    \* 0.20, times Scale
Scale == 100

\* null (a missing row, a free wallet) and undefined (a property the object
\* does not have); ids, addresses and wallets are positive, money read from
\* the exchange is >= 0
NULL == 0
Undefined == -1

\* Request slots, one HTTP request each, in arrival order per endpoint
EvalSlots == 1..(IF NEval > NOnboard THEN NEval ELSE NOnboard)
FirstTradeSlots(n) == {r + Cardinality(EvalSlots) : r \in 1..n}
TradeSlots == FirstTradeSlots(IF NConc > NTrade THEN NConc ELSE NTrade)
Slots == EvalSlots \cup TradeSlots
Wallets == 1..NWallets
\* hyperliquid addresses: at most one new address per /evaluate request
Addresses == EvalSlots

\* account values the exchange may report for a funded account
AccountValues == {0, 90, 100}
\* closedPnl values of the fills the exchange produces
PnlValues == {-50, 100}

\* ------------------------------------------------------------ analyzePnL
\* The loop step with `pnl >= 0` for `pnl > 0`: a break-even fill is a win
AnalyzeStep_BreakEvenWins(acc, pnl) ==
  LET runningPnl == acc.runningPnl + pnl
      peak == IF runningPnl > acc.peak THEN runningPnl ELSE acc.peak
      ddNum == IF peak > 0 THEN peak - runningPnl ELSE 0
      ddDen == IF peak > 0 THEN peak ELSE 1
      bigger == ddNum * acc.ddDen > acc.ddNum * ddDen
  IN [runningPnl |-> runningPnl,
      totalPnl |-> acc.totalPnl + pnl,
      wins |-> IF pnl >= 0 THEN acc.wins + 1 ELSE acc.wins,
      peak |-> peak,
      ddNum |-> IF bigger THEN ddNum ELSE acc.ddNum,
      ddDen |-> IF bigger THEN ddDen ELSE acc.ddDen]

\* One step of the loop over the fills; the running maximum drawdown is the
\* fraction ddNum / ddDen (ddDen > 0).
AnalyzeStep(acc, pnl) ==
  LET runningPnl == acc.runningPnl + pnl
      peak == IF runningPnl > acc.peak THEN runningPnl ELSE acc.peak
      ddNum == IF peak > 0 THEN peak - runningPnl ELSE 0
      ddDen == IF peak > 0 THEN peak ELSE 1
      bigger == ddNum * acc.ddDen > acc.ddNum * ddDen
  IN [runningPnl |-> runningPnl,
      totalPnl |-> acc.totalPnl + pnl,
      wins |-> IF pnl > 0 THEN acc.wins + 1 ELSE acc.wins,
      peak |-> peak,
      ddNum |-> IF bigger THEN ddNum ELSE acc.ddNum,
      ddDen |-> IF bigger THEN ddDen ELSE acc.ddDen]

RECURSIVE AnalyzeLoop(_, _)
AnalyzeLoop(fills, n) ==
  IF n = 0
  THEN [runningPnl |-> 0, totalPnl |-> 0, wins |-> 0, peak |-> 0,
        ddNum |-> 0, ddDen |-> 1]
  ELSE AnalyzeStep(AnalyzeLoop(fills, n - 1), fills[n])

\* The analysis without the minimum-trades branch
\* Math.round(winRate * 1000) / 1000, in thousandths (of a non-empty history)
RoundedWinRate(wins, n) == (2000 * wins + n) \div (2 * n)

analyzePnL_NoMinimum(fills) ==
  LET m == AnalyzeLoop(fills, Len(fills))
      rWin == IF m.wins * 100 < MIN_WINRATE * Len(fills)
              THEN <<"Win rate">> ELSE <<>>
      rPnl == IF m.totalPnl < MIN_TOTAL_PNL THEN <<"PnL">> ELSE <<>>
      rDd == IF m.ddNum * 100 > MAX_DRAWDOWN * m.ddDen
             THEN <<"Drawdown">> ELSE <<>>
      reasons == rWin \o rPnl \o rDd
  IN [total_pnl |-> m.totalPnl, wins |-> m.wins,
      win_rate |-> IF Len(fills) = 0 THEN 0 ELSE RoundedWinRate(m.wins, Len(fills)),
      ddNum |-> m.ddNum, ddDen |-> m.ddDen,
      total_trades |-> Len(fills), passes |-> reasons = <<>>,
      reasons |-> reasons]

\* Lines 54-82.  The result carries the maximum drawdown as the fraction
\* ddNum / ddDen; the rounding of the reported numbers is not modelled.
analyzePnL(fills) ==
  IF Len(fills) < MIN_TRADES
  THEN [total_pnl |-> 0, wins |-> 0, win_rate |-> 0, ddNum |-> 0, ddDen |-> 1,
        total_trades |-> Len(fills), passes |-> FALSE,
        reasons |-> <<"Insufficient trades">>]
  ELSE
    LET m == AnalyzeLoop(fills, Len(fills))
        rWin == IF m.wins * 100 < MIN_WINRATE * Len(fills)
                THEN <<"Win rate">> ELSE <<>>
        rPnl == IF m.totalPnl < MIN_TOTAL_PNL THEN <<"PnL">> ELSE <<>>
        rDd == IF m.ddNum * 100 > MAX_DRAWDOWN * m.ddDen
               THEN <<"Drawdown">> ELSE <<>>
        reasons == rWin \o rPnl \o rDd
    IN [total_pnl |-> m.totalPnl, wins |-> m.wins,
        win_rate |-> RoundedWinRate(m.wins, Len(fills)),
        ddNum |-> m.ddNum, ddDen |-> m.ddDen,
        total_trades |-> Len(fills), passes |-> reasons = <<>>,
        reasons |-> reasons]

\* no analysis result
NoMetrics ==
  [total_pnl |-> 0, wins |-> 0, win_rate |-> 0, ddNum |-> 0, ddDen |-> 1,
   total_trades |-> Undefined, passes |-> FALSE, reasons |-> <<>>]

\* trading histories an address may have on the exchange
GoodHistory == [i \in 1..MIN_TRADES |-> 10]
Histories == {<<>>, GoodHistory}

\* -------------------------------------------------------------- getBalance
\* The outcome of one exchange read: the value reported, or Failed.
Failed == -2
PerpsReads == AccountValues \cup {Failed}
\* ... and at onboarding, when the account holds its funding or nothing yet
FundingReads == {0, 100, Failed}
SpotReads == {0, Failed}

\* Both exchange reads are wrapped in try/catch: a failed read leaves its
\* part of the account value at 0.
getBalance(perps, spot) ==
  LET perpsValue == IF perps = Failed THEN 0 ELSE perps
      spotValue == IF spot = Failed THEN 0 ELSE spot
  IN [accountValue |-> perpsValue + spotValue]

\* ------------------------------------------------------------------- state
VARIABLES
  agents,      \* the agents table: a set of rows
  wallets,     \* the funded_wallets table: wallet address -> assigned_to
  req,         \* the HTTP requests: inputs, position, locals and response
  userFills,   \* exchange: the fills of each funded account, oldest first
  bypassPnl,   \* BYPASS_PNL_CHECK
  ledger,      \* an agent record the profit split is applied to, with the
               \* closedPnl values applied so far
  orders,      \* exchange: the orders accepted on behalf of each agent id
  analysis     \* a fill history and the result of analyzePnL on it

vars == <<agents, wallets, req, userFills, bypassPnl, ledger, orders, analysis>>

\* The in-memory Agent object.  An object built by /evaluate has hl_address
\* and initial_capital; an object read from the agents table has the
\* table's columns, so hyperliquid_address instead of hl_address and no
\* initial_capital.
NoAgent ==
  [id |-> NULL, hl_address |-> Undefined, hyperliquid_address |-> Undefined,
   funded_wallet_address |-> NULL, initial_capital |-> Undefined,
   current_pnl |-> 0, agent_profit |-> 0, firm_profit |-> 0,
   status |-> "none", trade_count |-> 0]

\* `row as Agent`: the columns of the row, nothing else
RowToAgent(row) ==
  [id |-> row.id, hl_address |-> Undefined,
   hyperliquid_address |-> row.hyperliquid_address,
   funded_wallet_address |-> row.funded_wallet_address,
   initial_capital |-> Undefined,
   current_pnl |-> row.current_pnl, agent_profit |-> row.agent_profit,
   firm_profit |-> row.firm_profit, status |-> row.status,
   trade_count |-> row.trade_count]

getAgent(id) ==
  IF \E row \in agents : row.id = id
  THEN RowToAgent(CHOOSE row \in agents : row.id = id)
  ELSE NoAgent

getAgentByHyperliquidAddress(address) ==
  IF \E row \in agents : row.hyperliquid_address = address
  THEN RowToAgent(CHOOSE row \in agents : row.hyperliquid_address = address)
  ELSE NoAgent

\* A statement that binds every column from whatever the object has
saveAgentThrows_Never(agent) == FALSE

\* The statement binds @id, @hl_address, ... from the object by name, and
\* hyperliquid_address is NOT NULL: an object without hl_address cannot be
\* written and stmt.run throws.
saveAgentThrows(agent) == agent.hl_address = Undefined

\* saveAgent on a table whose hyperliquid_address is not UNIQUE: only the
\* row with the same id is replaced
saveAgent_NoUniqueAddress(agent) ==
  LET row == [id |-> agent.id, hyperliquid_address |-> agent.hl_address,
              funded_wallet_address |-> agent.funded_wallet_address,
              current_pnl |-> agent.current_pnl,
              firm_profit |-> agent.firm_profit,
              agent_profit |-> agent.agent_profit,
              trade_count |-> agent.trade_count, status |-> agent.status]
  IN {old \in agents : old.id # row.id} \cup {row}

\* INSERT OR REPLACE: the rows that conflict on the primary key (id) or on
\* the UNIQUE hyperliquid_address are deleted, then the row is inserted.
\* initial_capital is not a column.
saveAgent(agent) ==
  LET row == [id |-> agent.id, hyperliquid_address |-> agent.hl_address,
              funded_wallet_address |-> agent.funded_wallet_address,
              current_pnl |-> agent.current_pnl,
              firm_profit |-> agent.firm_profit,
              agent_profit |-> agent.agent_profit,
              trade_count |-> agent.trade_count, status |-> agent.status]
  IN {old \in agents : /\ old.id # row.id
                       /\ old.hyperliquid_address # row.hyperliquid_address}
       \cup {row}

\* SELECT ... LIMIT 1 without the WHERE clause: the first row, free or not
getAvailableWallet_AnyRow ==
  CHOOSE w \in Wallets : \A v \in Wallets : w <= v

\* SELECT ... WHERE assigned_to IS NULL LIMIT 1: the first free row in table
\* order, NULL when there is none
getAvailableWallet ==
  LET free == {w \in Wallets : wallets[w] = NULL}
  IN IF free = {} THEN NULL
     ELSE CHOOSE w \in free : \A v \in free : w <= v

\* SELECT ... WHERE assigned_to = ? : the first matching row
getWalletForAgent(agentId) ==
  LET mine == {w \in Wallets : wallets[w] = agentId}
  IN IF mine = {} THEN NULL
     ELSE CHOOSE w \in mine : \A v \in mine : w <= v

\* UPDATE funded_wallets SET assigned_to = ? WHERE address = ?
assignWallet(walletAddress, agentId) ==
  [wallets EXCEPT ![walletAddress] = agentId]

\* Lines 40-44: the signing key of a funded wallet, one of the keys of
\* FUNDED_WALLETS; wallet.address is derived from it.  A key is a value no
\* address, id or amount is equal to.
privateKey(walletAddress) == 1000000 + walletAddress

\* no signing account
NoAccount == [address |-> NULL, privateKey |-> NULL]

\* privateKeyToAccount(wallet.privateKey): the signing account the exchange
\* client is built on, which holds the key and its address
privateKeyToAccount(pk) ==
  [address |-> pk - 1000000, privateKey |-> pk]

\* ---------------------------------------------------------------- requests
\* A request slot: the inputs of the request, the await it is suspended at
\* (pc), the handler's locals (wallet, agent, metrics), what it observed
\* (accountValue, balanceFailed), the orders the exchange accepted from it,
\* the signing account of its exchange client (account), and its response
\* (status, body, resAgent, resMetrics, resBalance, resAgents).  accountValue is the balance
\* a /trade request read and balanceFailed records that one of its balance
\* reads failed; both are kept while the drawdown decision is its latest step.
IdleRequest ==
  [kind |-> "idle", pc |-> "idle",
   hyperliquid_address |-> NULL, signatureValid |-> FALSE, history |-> <<>>,
   agent_id |-> NULL,
   wallet |-> NULL, agent |-> NoAgent,
   accountValue |-> Undefined, balanceFailed |-> FALSE,
   submitted |-> 0, account |-> NoAccount,
   status |-> 0, body |-> "", resAgent |-> NoAgent, resMetrics |-> NoMetrics,
   resBalance |-> Undefined, resAgents |-> {}]

\* res.status(code).json(body): the request is answered and the handler
\* returns, which ends its locals
Respond(r, code, body, agent) ==
  [r EXCEPT !.pc = "done", !.status = code, !.body = body, !.resAgent = agent,
            !.wallet = NULL, !.agent = NoAgent, !.history = <<>>,
            !.signatureValid = FALSE, !.account = NoAccount,
            !.accountValue = Undefined, !.balanceFailed = FALSE]

\* Requests of one endpoint are numbered in the order they arrive
Arrives(r) ==
  /\ req[r].kind = "idle"
  /\ (r - 1) \in Slots /\ ((r - 1) \in EvalSlots <=> r \in EvalSlots)
       => req[r - 1].kind # "idle"

\* The ledger record of the profit-split specification
LedgerInit == [agent |-> NoAgent, applied |-> <<>>]

\* The analyzer specification starts from the empty history, not analyzed
AnalysisInit == [fills |-> <<>>, metrics |-> NoMetrics]

Init ==
  /\ agents = {}
  /\ wallets = [w \in Wallets |-> NULL]
  /\ req = [r \in Slots |-> IdleRequest]
  /\ userFills = [w \in Wallets |-> <<>>]
  /\ bypassPnl \in BOOLEAN
  /\ ledger = LedgerInit
  /\ orders = [id \in EvalSlots |-> 0]
  /\ analysis = AnalysisInit

\* The addresses request r may come from: one an earlier request came from,
\* or the next unused one (which address is which does not matter)
AddressesFor(r) ==
  {a \in Addresses :
     \A b \in 1..(a - 1) : \E q \in 1..(r - 1) : req[q].hyperliquid_address = b}

\* ---------------------------------------------------------- POST /evaluate
\* The segment without the already-registered check
Evaluate_NoRegisteredCheck(r) ==
  /\ r \in EvalSlots
  /\ Arrives(r)
  /\ \E addr \in AddressesFor(r), sig \in BOOLEAN, hist \in Histories :
       req' = [req EXCEPT ![r] =
                 [req[r] EXCEPT !.kind = "evaluate",
                                !.hyperliquid_address = addr,
                                !.signatureValid = sig,
                                !.history = hist,
                                !.pc = "verify"]]
  /\ UNCHANGED <<agents, wallets, userFills, bypassPnl, ledger, orders, analysis>>

\* Lines 157-173: parse, the already-registered check, then await
\* verifyMessage.
Evaluate(r) ==
  /\ r \in EvalSlots
  /\ Arrives(r)
  /\ \E addr \in AddressesFor(r), sig \in BOOLEAN, hist \in Histories :
       LET start == [req[r] EXCEPT !.kind = "evaluate",
                                   !.hyperliquid_address = addr,
                                   !.signatureValid = sig,
                                   !.history = hist]
           existingAgent == getAgentByHyperliquidAddress(addr)
       IN req' = [req EXCEPT ![r] =
                    IF existingAgent # NoAgent
                    THEN Respond(start, 200, "already_registered", existingAgent)
                    ELSE [start EXCEPT !.pc = "verify"]]
  /\ UNCHANGED <<agents, wallets, userFills, bypassPnl, ledger, orders, analysis>>

\* The segment without the signature check
EvaluateVerified_NoCheck(r) ==
  /\ req[r].pc = "verify"
  /\ req' = [req EXCEPT ![r] = [req[r] EXCEPT !.pc = "analyze",
                                              !.signatureValid = FALSE]]
  /\ UNCHANGED <<agents, wallets, userFills, bypassPnl, ledger, orders, analysis>>

\* Lines 175-181: the signature check, then await analyzePnL.
EvaluateVerified(r) ==
  /\ req[r].pc = "verify"
  /\ req' = [req EXCEPT ![r] =
               IF ~req[r].signatureValid
               THEN Respond(req[r], 401, "Invalid signature", NoAgent)
               ELSE [req[r] EXCEPT !.pc = "analyze",
                                   !.signatureValid = FALSE]]
  /\ UNCHANGED <<agents, wallets, userFills, bypassPnl, ledger, orders, analysis>>

\* The segment without the risk gate
EvaluateAnalyzed_NoGate(r) ==
  /\ req[r].pc = "analyze"
  /\ LET wallet == getAvailableWallet
     IN req' = [req EXCEPT ![r] =
                  IF wallet = NULL
                  THEN Respond(req[r], 503, "No funded wallets available", NoAgent)
                  ELSE [req[r] EXCEPT !.pc = "balance", !.wallet = wallet]]
  /\ UNCHANGED <<agents, wallets, userFills, bypassPnl, ledger, orders, analysis>>

\* Lines 183-198: the risk gate, getAvailableWallet, then await getBalance.
EvaluateAnalyzed(r) ==
  /\ req[r].pc = "analyze"
  /\ LET metrics == analyzePnL(req[r].history)
         wallet == getAvailableWallet
     IN req' = [req EXCEPT ![r] =
                  IF ~metrics.passes /\ ~bypassPnl
                  THEN [Respond(req[r], 403, "rejected", NoAgent)
                          EXCEPT !.resMetrics = metrics]
                  ELSE IF wallet = NULL
                  THEN Respond(req[r], 503, "No funded wallets available", NoAgent)
                  ELSE [req[r] EXCEPT !.pc = "balance", !.wallet = wallet]]
  /\ UNCHANGED <<agents, wallets, userFills, bypassPnl, ledger, orders, analysis>>

\* The new Agent object with `funded_wallet_address: wallet.privateKey`
NewAgent_KeyAsAddress(r, initialCapital) ==
  [id |-> r, hl_address |-> req[r].hyperliquid_address,
   hyperliquid_address |-> Undefined,
   funded_wallet_address |-> privateKey(req[r].wallet),
   initial_capital |-> initialCapital,
   current_pnl |-> 0, agent_profit |-> 0, firm_profit |-> 0,
   status |-> "active", trade_count |-> 0]

\* Lines 203-214: the new Agent object.  randomUUID is modelled by the slot
\* of the creating request, which no other request shares.
NewAgent(r, initialCapital) ==
  [id |-> r, hl_address |-> req[r].hyperliquid_address,
   hyperliquid_address |-> Undefined,
   funded_wallet_address |-> req[r].wallet,
   initial_capital |-> initialCapital,
   current_pnl |-> 0, agent_profit |-> 0, firm_profit |-> 0,
   status |-> "active", trade_count |-> 0]

\* The segment with the response status always "approved"
EvaluateCreate_AlwaysApproved(r) ==
  /\ req[r].pc = "balance"
  /\ \E perps \in FundingReads, spot \in SpotReads :
       LET bal == getBalance(perps, spot)
           agent == NewAgent(r, bal.accountValue)
           metrics == analyzePnL(req[r].history)
       IN /\ wallets' = assignWallet(req[r].wallet, agent.id)
          /\ agents' = saveAgent(agent)
          /\ req' = [req EXCEPT ![r] =
                       [Respond(req[r], 200, "approved", agent)
                          EXCEPT !.resMetrics = metrics]]
  /\ UNCHANGED <<userFills, bypassPnl, ledger, orders, analysis>>

\* Lines 199-224: the initial capital, the agent, assignWallet, saveAgent and
\* the response.
EvaluateCreate(r) ==
  /\ req[r].pc = "balance"
  /\ \E perps \in FundingReads, spot \in SpotReads :
       LET bal == getBalance(perps, spot)
           agent == NewAgent(r, bal.accountValue)
           metrics == analyzePnL(req[r].history)
       IN /\ wallets' = assignWallet(req[r].wallet, agent.id)
          /\ agents' = saveAgent(agent)
          /\ req' = [req EXCEPT ![r] =
                       [Respond(req[r], 200,
                                IF metrics.passes THEN "approved" ELSE "approved_bypass",
                                agent)
                          EXCEPT !.resMetrics = metrics]]
  /\ UNCHANGED <<userFills, bypassPnl, ledger, orders, analysis>>

\* ------------------------------------------------------------- POST /trade
\* The segment with the revoked check before the not-found check: reading
\* agent.status of a missing agent throws, and the catch answers 500
Trade_RevokedCheckFirst(r) ==
  /\ r \in TradeSlots
  /\ Arrives(r)
  /\ \E id \in 1..NOnboard :
       LET start == [req[r] EXCEPT !.kind = "trade", !.agent_id = id]
           agent == getAgent(id)
           wallet == getWalletForAgent(agent.id)
       IN req' = [req EXCEPT ![r] =
                    IF agent = NoAgent
                    THEN Respond(start, 500, "Internal server error", NoAgent)
                    ELSE IF agent.status = "revoked"
                    THEN Respond(start, 403, "revoked", NoAgent)
                    ELSE IF agent.trade_count >= MAX_DAILY_TRADES
                    THEN Respond(start, 429, "Daily trade limit reached", NoAgent)
                    ELSE IF wallet = NULL
                    THEN Respond(start, 500, "No wallet assigned", NoAgent)
                    ELSE [start EXCEPT !.pc = "t_balance", !.agent = agent,
                                       !.wallet = wallet]]
  /\ UNCHANGED <<agents, wallets, userFills, bypassPnl, ledger, orders, analysis>>

\* Lines 239-265: parse, getAgent, the not-found, revoked and quota checks,
\* getWalletForAgent, then await getBalance.
Trade(r) ==
  /\ r \in TradeSlots
  /\ Arrives(r)
  /\ \E id \in 1..NOnboard :
       LET start == [req[r] EXCEPT !.kind = "trade", !.agent_id = id]
           agent == getAgent(id)
           wallet == getWalletForAgent(agent.id)
       IN req' = [req EXCEPT ![r] =
                    IF agent = NoAgent
                    THEN Respond(start, 404, "Agent not found", NoAgent)
                    ELSE IF agent.status = "revoked"
                    THEN Respond(start, 403, "revoked", NoAgent)
                    ELSE IF agent.trade_count >= MAX_DAILY_TRADES
                    THEN Respond(start, 429, "Daily trade limit reached", NoAgent)
                    ELSE IF wallet = NULL
                    THEN Respond(start, 500, "No wallet assigned", NoAgent)
                    ELSE [start EXCEPT !.pc = "t_balance", !.agent = agent,
                                       !.wallet = wallet]]
  /\ UNCHANGED <<agents, wallets, userFills, bypassPnl, ledger, orders, analysis>>

\* The drawdown check with a missing or zero baseline read as a total loss
DrawdownKill_NoBaselineKills(agent, accountValue) ==
  IF agent.initial_capital # Undefined /\ agent.initial_capital > 0
  THEN (agent.initial_capital - accountValue) * 100
         >= DRAWDOWN_KILL * agent.initial_capital
  ELSE 100 >= DRAWDOWN_KILL

\* Lines 267-271: drawdown >= DRAWDOWN_KILL, where drawdown is
\* (initial_capital - accountValue) / initial_capital when initial_capital > 0
\* and 0 otherwise.  `undefined > 0` is false.
DrawdownKill(agent, accountValue) ==
  IF agent.initial_capital # Undefined /\ agent.initial_capital > 0
  THEN (agent.initial_capital - accountValue) * 100
         >= DRAWDOWN_KILL * agent.initial_capital
  ELSE 0 >= DRAWDOWN_KILL

\* Lines 265-287: the drawdown check, the signing account of the exchange
\* client (line 283), then await infoClient.meta().  The
\* kill-switch's saveAgent is inside the try block: when it throws, the catch
\* swallows the error and the trade goes on with the object already marked
\* revoked in memory.
TradeAfterBalance(r) ==
  /\ req[r].pc = "t_balance"
  /\ \E perps \in PerpsReads, spot \in SpotReads :
       LET bal == getBalance(perps, spot)
           seen == [req[r] EXCEPT !.accountValue = bal.accountValue,
                                  !.balanceFailed = (perps = Failed \/ spot = Failed)]
           revoked == [req[r].agent EXCEPT !.status = "revoked"]
       IN IF DrawdownKill(req[r].agent, bal.accountValue)
          THEN IF saveAgentThrows(revoked)
               THEN /\ req' = [req EXCEPT ![r] =
                                 [seen EXCEPT !.pc = "t_meta", !.agent = revoked,
                                              !.account = privateKeyToAccount(privateKey(req[r].wallet))]]
                    /\ agents' = agents
               ELSE /\ req' = [req EXCEPT ![r] =
                                 [Respond(seen, 403, "Access revoked", NoAgent)
                                    EXCEPT !.accountValue = seen.accountValue,
                                           !.balanceFailed = seen.balanceFailed]]
                    /\ agents' = saveAgent(revoked)
          ELSE /\ req' = [req EXCEPT ![r] =
                            [seen EXCEPT !.pc = "t_meta",
                                         !.account = privateKeyToAccount(privateKey(req[r].wallet))]]
               /\ agents' = agents
  /\ UNCHANGED <<wallets, userFills, bypassPnl, ledger, orders, analysis>>

\* Lines 288-348: the coin lookup (the balance read went out of scope with
\* the try block), the optional leverage update (its failure
\* is ignored), the orders array, then await exchangeClient.order.
TradeAfterMeta(r) ==
  /\ req[r].pc = "t_meta"
  /\ \E coinFound \in BOOLEAN :
       req' = [req EXCEPT ![r] =
                 IF ~coinFound
                 THEN Respond(req[r], 400, "Coin not found", NoAgent)
                 ELSE [req[r] EXCEPT !.pc = "t_order",
                                     !.accountValue = Undefined,
                                     !.balanceFailed = FALSE]]
  /\ UNCHANGED <<agents, wallets, userFills, bypassPnl, ledger, orders, analysis>>

\* the sequences over S of length 0..n
SeqsUpTo(S, n) == UNION {[1..k -> S] : k \in 0..n}

\* the orders of one agent are counted up to one past the daily quota
MaxOrders == MAX_DAILY_TRADES + 1

\* Lines 345-355: the exchange answers the order.  A rejected order throws
\* and the handler's catch answers 500.  An accepted order may close
\* positions: the exchange appends the new fills to the account's fills.
\* Then trade_count++ on the object, then await userFills.
TradeAfterOrder(r) ==
  /\ req[r].pc = "t_order"
  /\ \E accepted \in BOOLEAN :
       IF ~accepted
       THEN /\ req' = [req EXCEPT ![r] =
                         Respond(req[r], 500, "Internal server error", NoAgent)]
            /\ userFills' = userFills
            /\ orders' = orders
       ELSE \E new \in SeqsUpTo(PnlValues, MaxFills - Len(userFills[req[r].wallet])) :
              /\ orders[req[r].agent_id] < MaxOrders
              /\ userFills' = [userFills EXCEPT ![req[r].wallet] = @ \o new]
              /\ orders' = [orders EXCEPT ![req[r].agent_id] = @ + 1]
              /\ req' = [req EXCEPT ![r] =
                           [req[r] EXCEPT !.pc = "t_fills",
                                          !.submitted = 1,
                                          !.agent.trade_count = @ + 1]]
  /\ UNCHANGED <<agents, wallets, bypassPnl, ledger, analysis>>

\* The profit split with `closedPnl !== 0` for `closedPnl > 0`: losses are
\* split too
ApplyClosedPnl_SplitsLosses(agent, closedPnl) ==
  IF closedPnl # 0
  THEN [agent EXCEPT !.agent_profit = @ + closedPnl * AGENT_PROFIT_SHARE,
                     !.firm_profit = @ + closedPnl * FIRM_PROFIT_SHARE,
                     !.current_pnl = @ + closedPnl]
  ELSE agent

\* Lines 358-368: the profit split of one closedPnl on the Agent object
\* (agent_profit and firm_profit are held times Scale)
ApplyClosedPnl(agent, closedPnl) ==
  IF closedPnl > 0
  THEN [agent EXCEPT !.agent_profit = @ + closedPnl * AGENT_PROFIT_SHARE,
                     !.firm_profit = @ + closedPnl * FIRM_PROFIT_SHARE,
                     !.current_pnl = @ + closedPnl]
  ELSE IF closedPnl < 0
  THEN [agent EXCEPT !.current_pnl = @ + closedPnl]
  ELSE agent

\* Lines 355-357: latestFill = fills[fills.length - 1], undefined when the
\* account has no fill
LatestFill(fs) == IF Len(fs) = 0 THEN Undefined ELSE Len(fs)

\* The fills step with a saveAgent that can bind the object read back and
\* replaces the rows of the same funded wallet
TradeAfterFills_SavesByWallet(r) ==
  /\ req[r].pc = "t_fills"
  /\ LET agent == [req[r].agent EXCEPT !.hl_address = req[r].agent.hyperliquid_address]
     IN /\ req' = [req EXCEPT ![r] = Respond(req[r], 200, "executed", NoAgent)]
        /\ agents' = {old \in saveAgent(agent) :
                        \/ old.id = agent.id
                        \/ old.funded_wallet_address # agent.funded_wallet_address}
  /\ UNCHANGED <<wallets, userFills, bypassPnl, ledger, orders, analysis>>

\* Lines 356-388: the fills read (a failed read is swallowed), the profit
\* split on the latest fill, saveAgent and the response.  When saveAgent
\* throws, the handler's catch answers 500.
TradeAfterFills(r) ==
  /\ req[r].pc = "t_fills"
  /\ \E fillsRead \in BOOLEAN :
       LET fs == userFills[req[r].wallet]
           latestFill == LatestFill(fs)
           agent == IF fillsRead /\ latestFill # Undefined
                    THEN ApplyClosedPnl(req[r].agent, fs[latestFill])
                    ELSE req[r].agent
           done == [req[r] EXCEPT !.agent = agent]
       IN IF saveAgentThrows(agent)
          THEN /\ req' = [req EXCEPT ![r] =
                            Respond(done, 500, "Internal server error", NoAgent)]
               /\ agents' = agents
          ELSE /\ req' = [req EXCEPT ![r] = Respond(done, 200, "executed", NoAgent)]
               /\ agents' = saveAgent(agent)
  /\ UNCHANGED <<wallets, userFills, bypassPnl, ledger, orders, analysis>>

\* ------------------------------------------------------------ POST /cancel
\* Lines 395-414: parse, getAgent, the not-found and revoked checks,
\* getWalletForAgent, then await infoClient.meta().
Cancel(r) ==
  /\ r \in TradeSlots
  /\ Arrives(r)
  /\ \E id \in 1..NOnboard :
       LET start == [req[r] EXCEPT !.kind = "cancel", !.agent_id = id]
           agent == getAgent(id)
           wallet == getWalletForAgent(agent.id)
       IN req' = [req EXCEPT ![r] =
                    IF agent = NoAgent
                    THEN Respond(start, 404, "Agent not found", NoAgent)
                    ELSE IF agent.status = "revoked"
                    THEN Respond(start, 403, "Agent access has been revoked", NoAgent)
                    ELSE IF wallet = NULL
                    THEN Respond(start, 500, "No wallet assigned", NoAgent)
                    ELSE [start EXCEPT !.pc = "c_meta", !.agent = agent,
                                       !.wallet = wallet]]
  /\ UNCHANGED <<agents, wallets, userFills, bypassPnl, ledger, orders, analysis>>

\* Lines 415-429: the coin lookup, the signing account of the exchange
\* client, then await exchangeClient.cancel.
CancelAfterMeta(r) ==
  /\ req[r].pc = "c_meta"
  /\ \E coinFound \in BOOLEAN :
       req' = [req EXCEPT ![r] =
                 IF ~coinFound
                 THEN Respond(req[r], 400, "Coin not found", NoAgent)
                 ELSE [req[r] EXCEPT !.pc = "c_cancel",
                                     !.account = privateKeyToAccount(privateKey(req[r].wallet))]]
  /\ UNCHANGED <<agents, wallets, userFills, bypassPnl, ledger, orders, analysis>>

\* The last segment with the bookkeeping of /trade: the cancel is counted in
\* trade_count and the record is written
CancelAfterCancel_CountsCancel(r) ==
  /\ req[r].pc = "c_cancel"
  /\ req' = [req EXCEPT ![r] = Respond(req[r], 200, "executed", NoAgent)]
  /\ agents' = {IF row.id = req[r].agent.id
                THEN [row EXCEPT !.trade_count = @ + 1] ELSE row : row \in agents}
  /\ UNCHANGED <<wallets, userFills, bypassPnl, ledger, orders, analysis>>

\* Lines 431-439: the exchange answers the cancel: the response
\* {status: "executed", agent_id, hl_response}, or the catch's 500 when the
\* call throws.  Nothing is written.
CancelAfterCancel(r) ==
  /\ req[r].pc = "c_cancel"
  /\ \E accepted \in BOOLEAN :
       req' = [req EXCEPT ![r] =
                 IF accepted
                 THEN Respond(req[r], 200, "executed", NoAgent)
                 ELSE Respond(req[r], 500, "Internal server error", NoAgent)]
  /\ UNCHANGED <<agents, wallets, userFills, bypassPnl, ledger, orders, analysis>>

\* ------------------------------------------------------ the read endpoints
\* Lines 444-457: GET /open_orders/:agent_id: getAgent, getWalletForAgent,
\* then await infoClient.openOrders.
OpenOrders(r) ==
  /\ r \in TradeSlots
  /\ Arrives(r)
  /\ \E id \in 1..NOnboard :
       LET start == [req[r] EXCEPT !.kind = "open_orders", !.agent_id = id]
           agent == getAgent(id)
           wallet == getWalletForAgent(agent.id)
       IN req' = [req EXCEPT ![r] =
                    IF agent = NoAgent
                    THEN Respond(start, 404, "Agent not found", NoAgent)
                    ELSE IF wallet = NULL
                    THEN Respond(start, 500, "No wallet assigned", NoAgent)
                    ELSE [start EXCEPT !.pc = "o_read", !.agent = agent,
                                       !.wallet = wallet]]
  /\ UNCHANGED <<agents, wallets, userFills, bypassPnl, ledger, orders, analysis>>

\* Lines 458-462: the response {open_orders}, or 500 when the read failed
OpenOrdersRead(r) ==
  /\ req[r].pc = "o_read"
  /\ \E read \in BOOLEAN :
       req' = [req EXCEPT ![r] =
                 IF read
                 THEN Respond(req[r], 200, "open_orders", NoAgent)
                 ELSE Respond(req[r], 500, "Failed to fetch open orders", NoAgent)]
  /\ UNCHANGED <<agents, wallets, userFills, bypassPnl, ledger, orders, analysis>>

\* Lines 467-480: GET /positions/:agent_id: getAgent, getWalletForAgent,
\* then await infoClient.clearinghouseState.
Positions(r) ==
  /\ r \in TradeSlots
  /\ Arrives(r)
  /\ \E id \in 1..NOnboard :
       LET start == [req[r] EXCEPT !.kind = "positions", !.agent_id = id]
           agent == getAgent(id)
           wallet == getWalletForAgent(agent.id)
       IN req' = [req EXCEPT ![r] =
                    IF agent = NoAgent
                    THEN Respond(start, 404, "Agent not found", NoAgent)
                    ELSE IF wallet = NULL
                    THEN Respond(start, 500, "No wallet assigned", NoAgent)
                    ELSE [start EXCEPT !.pc = "p_read", !.agent = agent,
                                       !.wallet = wallet]]
  /\ UNCHANGED <<agents, wallets, userFills, bypassPnl, ledger, orders, analysis>>

\* Lines 481-486: the response {positions, marginSummary} with the account
\* value the exchange reports, or 500 when the read failed
PositionsRead(r) ==
  /\ req[r].pc = "p_read"
  /\ \E perps \in PerpsReads :
       req' = [req EXCEPT ![r] =
                 IF perps # Failed
                 THEN [Respond(req[r], 200, "positions", NoAgent)
                         EXCEPT !.resBalance = perps]
                 ELSE Respond(req[r], 500, "Failed to fetch positions", NoAgent)]
  /\ UNCHANGED <<agents, wallets, userFills, bypassPnl, ledger, orders, analysis>>

\* Lines 543-551: GET /stats/:agent_id: getAgent, then await getBalance of
\* the agent's funded_wallet_address.  The revoked status is not checked.
Stats(r) ==
  /\ r \in TradeSlots
  /\ Arrives(r)
  /\ \E id \in 1..NOnboard :
       LET start == [req[r] EXCEPT !.kind = "stats", !.agent_id = id]
           agent == getAgent(id)
       IN req' = [req EXCEPT ![r] =
                    IF agent = NoAgent
                    THEN Respond(start, 404, "Agent not found", NoAgent)
                    ELSE [start EXCEPT !.pc = "s_balance", !.agent = agent]]
  /\ UNCHANGED <<agents, wallets, userFills, bypassPnl, ledger, orders, analysis>>

\* Lines 551-554: the response {agent, balance, risk_gates}.  getBalance
\* swallows its failed reads, so balance is never null.
StatsAfterBalance(r) ==
  /\ req[r].pc = "s_balance"
  /\ \E perps \in PerpsReads, spot \in SpotReads :
       req' = [req EXCEPT ![r] =
                 [Respond(req[r], 200, "stats", req[r].agent)
                    EXCEPT !.resBalance = getBalance(perps, spot).accountValue]]
  /\ UNCHANGED <<agents, wallets, userFills, bypassPnl, ledger, orders, analysis>>

\* SELECT * FROM agents, or WHERE status = ? for another filter
getAllAgents(statusFilter) ==
  IF statusFilter = "all"
  THEN {RowToAgent(row) : row \in agents}
  ELSE {RowToAgent(row) : row \in {x \in agents : x.status = statusFilter}}

\* Lines 562-566: GET /agents: the response {agents, count}, in one step
ListAgents(r) ==
  /\ r \in TradeSlots
  /\ Arrives(r)
  /\ \E status \in {"all", "active", "revoked"} :
       req' = [req EXCEPT ![r] =
                 [Respond([req[r] EXCEPT !.kind = "agents"], 200, "agents", NoAgent)
                    EXCEPT !.resAgents = getAllAgents(status)]]
  /\ UNCHANGED <<agents, wallets, userFills, bypassPnl, ledger, orders, analysis>>

\* ------------------------------------------------------------ the system
\* The full system: NOnboard /evaluate requests and NTrade /trade requests,
\* interleaved at their awaits
Next ==
  \/ \E r \in 1..NOnboard :
       \/ Evaluate(r)
       \/ EvaluateVerified(r)
       \/ EvaluateAnalyzed(r)
       \/ EvaluateCreate(r)
  \/ \E r \in FirstTradeSlots(NTrade) :
       \/ Trade(r)
       \/ TradeAfterBalance(r)
       \/ TradeAfterMeta(r)
       \/ TradeAfterOrder(r)
       \/ TradeAfterFills(r)

Spec == Init /\ [][Next]_vars

\* Onboarding alone: NEval /evaluate requests, interleaved at their awaits
NextEvaluate ==
  \E r \in 1..NEval :
    \/ Evaluate(r)
    \/ EvaluateVerified(r)
    \/ EvaluateAnalyzed(r)
    \/ EvaluateCreate(r)

SpecEvaluate == Init /\ [][NextEvaluate]_vars

\* The profit split alone: closedPnl values applied one after another to an
\* agent record that starts with zero totals
LedgerValues == {-50, 0, 100, 200}

LedgerApply ==
  /\ Len(ledger.applied) < MaxSeq
  /\ \E closedPnl \in LedgerValues :
       ledger' = [agent |-> ApplyClosedPnl(ledger.agent, closedPnl),
                  applied |-> Append(ledger.applied, closedPnl)]
  /\ UNCHANGED <<agents, wallets, req, userFills, bypassPnl, orders, analysis>>

SpecLedger == Init /\ [][LedgerApply]_vars

\* Concurrent trading of one agent: its onboarding (the first /evaluate
\* request) and NConc /trade requests, interleaved at their awaits
NextTrades ==
  \/ \E r \in {q \in EvalSlots : q <= 1} :
       \/ Evaluate(r)
       \/ EvaluateVerified(r)
       \/ EvaluateAnalyzed(r)
       \/ EvaluateCreate(r)
  \/ \E r \in FirstTradeSlots(NConc) :
       \/ Trade(r)
       \/ TradeAfterBalance(r)
       \/ TradeAfterMeta(r)
       \/ TradeAfterOrder(r)
       \/ TradeAfterFills(r)

SpecTrades == Init /\ [][NextTrades]_vars

\* An answered /trade request leaves; its slot takes the client's next call
NextCall(r) ==
  /\ req[r].kind = "trade"
  /\ req[r].pc = "done"
  /\ req' = [req EXCEPT ![r] = IdleRequest]
  /\ UNCHANGED <<agents, wallets, userFills, bypassPnl, ledger, orders, analysis>>

\* Trading day after day: NOnboard /evaluate requests and NTrade /trade
\* clients, each making one call after another
NextQuota ==
  \/ \E r \in 1..NOnboard :
       \/ Evaluate(r)
       \/ EvaluateVerified(r)
       \/ EvaluateAnalyzed(r)
       \/ EvaluateCreate(r)
  \/ \E r \in FirstTradeSlots(NTrade) :
       \/ Trade(r)
       \/ TradeAfterBalance(r)
       \/ TradeAfterMeta(r)
       \/ TradeAfterOrder(r)
       \/ TradeAfterFills(r)
       \/ NextCall(r)

SpecQuota == Init /\ [][NextQuota]_vars

\* A request of a process that died: no locals, no response
LostRequest == [IdleRequest EXCEPT !.kind = "lost", !.pc = "lost"]

\* The server process dies while its requests are suspended at their awaits:
\* the requests are lost, the database file keeps what was written.
Crash ==
  /\ \E r \in Slots : req[r].kind # "lost"
  /\ req' = [r \in Slots |-> LostRequest]
  /\ UNCHANGED <<agents, wallets, userFills, bypassPnl, ledger, orders, analysis>>

\* Lines 216-217: the server process dies between assignWallet and saveAgent.
\* Each statement is its own transaction: the UPDATE of funded_wallets is
\* in the database file, the INSERT of the agent is not.
CrashInCreate(r) ==
  /\ req[r].pc = "balance"
  /\ wallets' = assignWallet(req[r].wallet, NewAgent(r, 0).id)
  /\ req' = [q \in Slots |-> LostRequest]
  /\ UNCHANGED <<agents, userFills, bypassPnl, ledger, orders, analysis>>

\* Onboarding on a server process that may die at any point
NextCrash ==
  \/ NextEvaluate
  \/ Crash
  \/ \E r \in 1..NEval : CrashInCreate(r)

SpecCrash == Init /\ [][NextCrash]_vars

\* The analyzer alone: the fill history of an address grows one fill at a
\* time, and analyzePnL is applied to it
AnalysisValues == {-300, 100}

HistoryGrows ==
  /\ Len(analysis.fills) < MaxHistory
  /\ \E pnl \in AnalysisValues :
       analysis' = [fills |-> Append(analysis.fills, pnl), metrics |-> NoMetrics]
  /\ UNCHANGED <<agents, wallets, req, userFills, bypassPnl, ledger, orders>>

\* a history of 12 fills with 7 wins, total PnL 300 and one drawdown of 5
\* from the peak 100
ScenarioHistories ==
  {<<100, -5, 0, 0, 0, 0, 30, 30, 30, 30, 30, 55>>}

\* ... or the address has one of the scenario histories
HistoryGiven ==
  /\ analysis = AnalysisInit
  /\ \E fills \in ScenarioHistories :
       analysis' = [fills |-> fills, metrics |-> NoMetrics]
  /\ UNCHANGED <<agents, wallets, req, userFills, bypassPnl, ledger, orders>>

AnalyzeHistory ==
  /\ analysis.metrics = NoMetrics
  /\ analysis' = [analysis EXCEPT !.metrics = analyzePnL(analysis.fills)]
  /\ UNCHANGED <<agents, wallets, req, userFills, bypassPnl, ledger, orders>>

NextAnalyze == HistoryGrows \/ HistoryGiven \/ AnalyzeHistory

SpecAnalyze == Init /\ [][NextAnalyze]_vars

\* Trading next to another agent: two /evaluate requests and NTrade /trade
\* requests, interleaved at their awaits
NextAgents ==
  \/ \E r \in {q \in EvalSlots : q <= 2} :
       \/ Evaluate(r)
       \/ EvaluateVerified(r)
       \/ EvaluateAnalyzed(r)
       \/ EvaluateCreate(r)
  \/ \E r \in FirstTradeSlots(NTrade) :
       \/ Trade(r)
       \/ TradeAfterBalance(r)
       \/ TradeAfterMeta(r)
       \/ TradeAfterOrder(r)
       \/ TradeAfterFills(r)

SpecAgents == Init /\ [][NextAgents]_vars

\* Lines 36-45 and 594-614: the server process is started again.  The
\* in-flight requests are lost; the module initialisation drops and
\* re-creates funded_wallets, the start-up load inserts every configured
\* wallet with assigned_to null; the agents table is kept.
Restart ==
  /\ req' = [r \in Slots |->
               IF req[r].pc \in {"idle", "done"} THEN req[r] ELSE LostRequest]
  /\ wallets' = [w \in Wallets |-> NULL]
  /\ UNCHANGED <<agents, userFills, bypassPnl, ledger, orders, analysis>>

\* Onboarding on a server that may be restarted at any point
NextRestart ==
  \/ NextEvaluate
  \/ Restart

SpecRestart == Init /\ [][NextRestart]_vars

\* The whole service of one agent: its onboarding (the first /evaluate
\* request) and NConc requests of any endpoint, interleaved at their awaits
NextService ==
  \/ \E r \in {q \in EvalSlots : q <= 1} :
       \/ Evaluate(r)
       \/ EvaluateVerified(r)
       \/ EvaluateAnalyzed(r)
       \/ EvaluateCreate(r)
  \/ \E r \in FirstTradeSlots(NConc) :
       \/ Trade(r)
       \/ TradeAfterBalance(r)
       \/ TradeAfterMeta(r)
       \/ TradeAfterOrder(r)
       \/ TradeAfterFills(r)
       \/ Cancel(r)
       \/ CancelAfterMeta(r)
       \/ CancelAfterCancel(r)
       \/ OpenOrders(r)
       \/ OpenOrdersRead(r)
       \/ Positions(r)
       \/ PositionsRead(r)
       \/ Stats(r)
       \/ StatsAfterBalance(r)
       \/ ListAgents(r)

SpecService == Init /\ [][NextService]_vars

\* ================================================================ properties
RECURSIVE Sum(_)
Sum(xs) == IF xs = <<>> THEN 0 ELSE xs[1] + Sum(Tail(xs))

RECURSIVE SumPositive(_)
SumPositive(xs) ==
  IF xs = <<>> THEN 0
  ELSE (IF xs[1] > 0 THEN xs[1] ELSE 0) + SumPositive(Tail(xs))

\* request r is a finished /evaluate that created an agent
Approved(r) ==
  /\ req[r].kind = "evaluate"
  /\ req[r].pc = "done"
  /\ req[r].body \in {"approved", "approved_bypass"}

\* request r is a finished /evaluate that found no free wallet
NoCapacity(r) ==
  /\ req[r].kind = "evaluate"
  /\ req[r].pc = "done"
  /\ req[r].status = 503

\* the status column of the row of agent id, "none" when there is no row
PersistedStatus(id) == getAgent(id).status

\* a /trade request of agent id is between its first and its last step
TradeInFlight(id) ==
  \E r \in TradeSlots :
    /\ req[r].kind = "trade"
    /\ req[r].pc # "done"
    /\ req[r].agent_id = id

\* C1: two approved onboardings of different addresses never carry the same
\* funded_wallet_address.
C1_NoWalletHandedTwice ==
  \A r1, r2 \in EvalSlots :
    ( /\ r1 # r2
      /\ Approved(r1)
      /\ Approved(r2)
      /\ req[r1].hyperliquid_address # req[r2].hyperliquid_address )
    => req[r1].resAgent.funded_wallet_address
         # req[r2].resAgent.funded_wallet_address

\* C2: revocation is sticky: an agent whose row is revoked stays revoked, so
\* that every later /trade of that agent is answered 403 at its status check.
C2_RevocationSticky ==
  [][\A id \in EvalSlots :
       PersistedStatus(id) = "revoked" => PersistedStatus(id)' = "revoked"]_vars

\* C3: a /trade that reads, with no failed read, an account value whose
\* drawdown against the positive initial capital the agent was onboarded
\* with is at least DRAWDOWN_KILL (equality included) is answered 403, leaves
\* the agent persisted as revoked and submits no order.
C3_KillSwitchFires ==
  \A r \in TradeSlots :
    LET id == req[r].agent_id
        initialCapital == req[id].resAgent.initial_capital
    IN ( /\ req[r].kind = "trade"
         /\ req[r].accountValue # Undefined
         /\ ~req[r].balanceFailed
         /\ Approved(id)
         /\ initialCapital > 0
         /\ (initialCapital - req[r].accountValue) * 100
              >= DRAWDOWN_KILL * initialCapital )
       => /\ req[r].pc = "done"
          /\ req[r].status = 403
          /\ PersistedStatus(id) = "revoked"
          /\ req[r].submitted = 0

\* C4: the agents table never holds two rows with the same hyperliquid
\* address.
C4_OneAgentPerAddress ==
  \A a, b \in agents :
    a.hyperliquid_address = b.hyperliquid_address => a = b

\* C4 witness: two /evaluate calls of one address both went through
\* saveAgent, and the table holds one row for the address.
C4_Witness ==
  \E r1, r2 \in EvalSlots :
    /\ r1 # r2
    /\ Approved(r1)
    /\ Approved(r2)
    /\ req[r1].hyperliquid_address = req[r2].hyperliquid_address
    /\ Cardinality(agents) = 1

\* C5: of two answered /evaluate calls of one address, when one is answered
\* approved the other is answered already_registered with the same agent id
\* (or fails); they are never both approved with different ids.
C5_SecondCallAlreadyRegistered ==
  \A r1, r2 \in EvalSlots :
    ( /\ r1 # r2
      /\ Approved(r1)
      /\ req[r2].kind = "evaluate"
      /\ req[r2].pc = "done"
      /\ req[r2].status = 200
      /\ req[r1].hyperliquid_address = req[r2].hyperliquid_address )
    => /\ req[r2].body = "already_registered"
       /\ req[r2].resAgent.id = req[r1].resAgent.id

\* C6: when more /evaluate requests than there are wallets, all of distinct
\* addresses and all past the signature check and the risk gate (no bypass),
\* have been answered, exactly NWallets of them are approved and the others
\* are answered 503.
C6_ExactlyMApproved ==
  ( /\ NEval > NWallets
    /\ ~bypassPnl
    /\ \A r \in 1..NEval : Approved(r) \/ NoCapacity(r)
    /\ \A r1, r2 \in 1..NEval :
         r1 # r2 => req[r1].hyperliquid_address # req[r2].hyperliquid_address )
  => /\ Cardinality({r \in 1..NEval : Approved(r)}) = NWallets
     /\ Cardinality({r \in 1..NEval : NoCapacity(r)}) = NEval - NWallets

C8_ProfitSplitTotals ==
  /\ ledger.agent.agent_profit = AGENT_PROFIT_SHARE * SumPositive(ledger.applied)
  /\ ledger.agent.firm_profit = FIRM_PROFIT_SHARE * SumPositive(ledger.applied)
  /\ ledger.agent.current_pnl = Sum(ledger.applied)

\* C8 witness: [100, -50, 200] gives 240, 60 and 250.
C8_Witness ==
  /\ ledger.applied = <<100, -50, 200>>
  /\ ledger.agent.agent_profit = 240 * Scale
  /\ ledger.agent.firm_profit = 60 * Scale
  /\ ledger.agent.current_pnl = 250

C10_InitialCapitalReadBack ==
  \A r \in TradeSlots :
    req[r].agent # NoAgent =>
      req[r].agent.initial_capital
        = req[req[r].agent.id].resAgent.initial_capital

\* the /trade requests made for agent id
TradesOf(id) ==
  {r \in TradeSlots : req[r].kind = "trade" /\ req[r].agent_id = id}

C13_NoOrphanWallet ==
  \A w \in Wallets :
    wallets[w] # NULL => \E row \in agents : row.id = wallets[w]

\* C14: no step overwrites a wallet's non-null assigned_to: once a wallet is
\* assigned, its assigned_to is the same agent id after every step.
C14_AssignedOnlyFromNull ==
  [][\A w \in Wallets : wallets[w] # NULL => wallets'[w] = wallets[w]]_vars

\* C15: the step of a /evaluate request past the analysis, when the analysis
\* of its history fails and the bypass flag is not set, answers 403 rejected
\* with the metrics of that history and changes neither the agents table nor
\* any wallet's assigned_to.
C15_RejectedLeavesState ==
  [][\A r \in EvalSlots :
       ( /\ req[r].pc = "analyze"
         /\ req'[r].pc # "analyze"
         /\ ~analyzePnL(req[r].history).passes
         /\ ~bypassPnl )
       => /\ req'[r].pc = "done"
          /\ req'[r].status = 403
          /\ req'[r].body = "rejected"
          /\ req'[r].resMetrics = analyzePnL(req[r].history)
          /\ agents' = agents
          /\ wallets' = wallets]_vars

\* C15 witness: a /evaluate was answered rejected, with failing metrics, on
\* a server without bypass that holds an agent and an assigned wallet.
C15_Witness ==
  \E r \in EvalSlots :
    /\ req[r].kind = "evaluate"
    /\ req[r].body = "rejected"
    /\ req[r].status = 403
    /\ ~req[r].resMetrics.passes
    /\ req[r].resMetrics.total_trades = 0
    /\ ~bypassPnl
    /\ agents # {}
    /\ \E w \in Wallets : wallets[w] # NULL

\* C16: the step of a /evaluate request past the analysis, when its history
\* passes the gate and no wallet is free, answers 503, changes neither the
\* agents table nor any wallet, and leaves no agent created by this request
\* (so the address is not registered by it).
C16_NoCapacityLeavesState ==
  [][\A r \in EvalSlots :
       ( /\ req[r].pc = "analyze"
         /\ req'[r].pc # "analyze"
         /\ analyzePnL(req[r].history).passes
         /\ \A w \in Wallets : wallets[w] # NULL )
       => /\ req'[r].pc = "done"
          /\ req'[r].status = 503
          /\ req'[r].resAgent = NoAgent
          /\ agents' = agents
          /\ wallets' = wallets
          /\ \A row \in agents' : row.id # r]_vars

\* C16 witness: a gate-passing /evaluate was answered 503 while every wallet
\* is assigned, and its address has no agent.
C16_Witness ==
  \E r \in EvalSlots :
    /\ NoCapacity(r)
    /\ ~bypassPnl
    /\ \A w \in Wallets : wallets[w] # NULL
    /\ getAgentByHyperliquidAddress(req[r].hyperliquid_address) = NoAgent

\* C17: the step of a /evaluate request past the signature verification,
\* when the signature is invalid, answers 401 without an analysis result and
\* changes neither the agents table nor any wallet.
C17_InvalidSignature401 ==
  [][\A r \in EvalSlots :
       ( /\ req[r].pc = "verify"
         /\ req'[r].pc # "verify"
         /\ ~req[r].signatureValid )
       => /\ req'[r].pc = "done"
          /\ req'[r].status = 401
          /\ req'[r].resMetrics = NoMetrics
          /\ req'[r].resAgent = NoAgent
          /\ agents' = agents
          /\ wallets' = wallets]_vars

\* C17 witness: a /evaluate of an unregistered address was answered 401.
C17_Witness ==
  \E r \in EvalSlots :
    /\ req[r].kind = "evaluate"
    /\ req[r].pc = "done"
    /\ req[r].status = 401
    /\ getAgentByHyperliquidAddress(req[r].hyperliquid_address) = NoAgent

\* C18: a step adds a row to the agents table only as the creating step of a
\* /evaluate request whose history passed the analysis or while the bypass
\* flag is set; that step answers approved exactly when the analysis passed
\* and approved_bypass exactly when it failed with bypass set, and the agent
\* it returns and stores is active with trade_count 0 and zero PnL and shares.
C18_CreatedOnlyWhenAdmitted ==
  [][/\ \A r \in EvalSlots :
          (req[r].pc = "balance" /\ req'[r].pc = "done") =>
            LET m == analyzePnL(req[r].history)
                a == req'[r].resAgent
            IN /\ m.passes \/ bypassPnl
               /\ req'[r].resMetrics = m
               /\ (req'[r].body = "approved") <=> m.passes
               /\ (req'[r].body = "approved_bypass") <=> (~m.passes /\ bypassPnl)
               /\ a.status = "active" /\ a.trade_count = 0
               /\ a.current_pnl = 0 /\ a.agent_profit = 0 /\ a.firm_profit = 0
               /\ \E row \in agents' :
                    /\ row.id = a.id
                    /\ row.status = "active" /\ row.trade_count = 0
                    /\ row.current_pnl = 0
                    /\ row.agent_profit = 0 /\ row.firm_profit = 0
     /\ \A row \in agents' \ agents :
          \E r \in EvalSlots :
            /\ req[r].pc = "balance" /\ req'[r].pc = "done"
            /\ req'[r].resAgent.id = row.id
            /\ analyzePnL(req[r].history).passes \/ bypassPnl]_vars

\* C18 witness: with bypass set, a /evaluate whose analysis failed was
\* answered approved_bypass and its agent is in the table.
C18_Witness ==
  \E r \in EvalSlots :
    /\ req[r].body = "approved_bypass"
    /\ bypassPnl
    /\ ~req[r].resMetrics.passes
    /\ \E row \in agents : row.id = req[r].resAgent.id /\ row.status = "active"

\* the analysis result names the insufficient number of trades
CitesInsufficientTrades(metrics) ==
  \E i \in 1..Len(metrics.reasons) : metrics.reasons[i] = "Insufficient trades"

\* C19: the analysis of a history shorter than MIN_TRADES, the empty one
\* included, does not pass and one of its reasons is the insufficient number
\* of trades.
C19_ShortHistoryFails ==
  ( /\ analysis.metrics # NoMetrics
    /\ Len(analysis.fills) < MIN_TRADES )
  => /\ ~analysis.metrics.passes
     /\ CitesInsufficientTrades(analysis.metrics)
     /\ analysis.metrics.total_trades = Len(analysis.fills)

\* C19 witness: a history of MIN_TRADES - 1 fills, all of them wins, was
\* analyzed and did not pass.
C19_Witness ==
  /\ analysis.metrics # NoMetrics
  /\ Len(analysis.fills) = MIN_TRADES - 1
  /\ \A i \in 1..Len(analysis.fills) : analysis.fills[i] > 0
  /\ ~analysis.metrics.passes
  /\ CitesInsufficientTrades(analysis.metrics)

\* the running PnL of the history is positive after some fill
PositiveRunningPnl(fills) ==
  \E k \in 1..Len(fills) : Sum(SubSeq(fills, 1, k)) > 0

\* C20: the maximum drawdown computed for a history whose running PnL is
\* positive at some point lies in [0, 1].
C20_DrawdownWithinUnit ==
  ( /\ analysis.metrics # NoMetrics
    /\ PositiveRunningPnl(analysis.fills) )
  => /\ analysis.metrics.ddNum >= 0
     /\ analysis.metrics.ddNum <= analysis.metrics.ddDen

\* the gates of the risk analysis, computed from the fills
Wins(fills) == Cardinality({i \in 1..Len(fills) : fills[i] > 0})

RunningPnl(fills, k) == Sum(SubSeq(fills, 1, k))

PeakAt(fills, k) ==
  LET seen == {0} \cup {RunningPnl(fills, j) : j \in 1..k}
  IN CHOOSE p \in seen : \A q \in seen : p >= q

TradesGate(fills) == Len(fills) >= MIN_TRADES

WinRateGate(fills) == Wins(fills) * 100 >= MIN_WINRATE * Len(fills)

TotalPnlGate(fills) == Sum(fills) >= MIN_TOTAL_PNL

DrawdownGate(fills) ==
  \A k \in 1..Len(fills) :
    PeakAt(fills, k) > 0 =>
      (PeakAt(fills, k) - RunningPnl(fills, k)) * 100
        <= MAX_DRAWDOWN * PeakAt(fills, k)

\* C21: the analysis of a history passes exactly when the number of fills,
\* the win rate, the total PnL and the maximum drawdown, all unrounded, are
\* within the four thresholds; the reported win_rate of a history of at
\* least MIN_TRADES fills is the win rate rounded to three decimals.
C21_PassesIffAllGates ==
  analysis.metrics # NoMetrics =>
    /\ analysis.metrics.passes
         <=> ( /\ TradesGate(analysis.fills)
               /\ WinRateGate(analysis.fills)
               /\ TotalPnlGate(analysis.fills)
               /\ DrawdownGate(analysis.fills) )
    /\ TradesGate(analysis.fills) =>
         analysis.metrics.win_rate
           = RoundedWinRate(Wins(analysis.fills), Len(analysis.fills))

\* C21 witness: 12 fills with 7 wins, total PnL 300 and maximum drawdown
\* 0.05 pass with reported win_rate 0.583.
C21_Witness ==
  /\ Len(analysis.fills) = 12
  /\ Wins(analysis.fills) = 7
  /\ analysis.metrics.passes
  /\ analysis.metrics.total_pnl = 300
  /\ analysis.metrics.ddNum * 100 = 5 * analysis.metrics.ddDen
  /\ analysis.metrics.win_rate = 583

\* the number of entries of the reasons list that cite the clause
Cites(metrics, clause) ==
  Cardinality({i \in 1..Len(metrics.reasons) : metrics.reasons[i] = clause})

\* C27: the reasons list of an analysis has exactly one entry for each of
\* the four clauses the history violates and no other entry, and the
\* returned total PnL and wins are those of the history, also when the
\* history is shorter than MIN_TRADES.
C27_OneReasonPerViolatedGate ==
  analysis.metrics # NoMetrics =>
    LET fills == analysis.fills
        m == analysis.metrics
    IN /\ Cites(m, "Insufficient trades") = (IF TradesGate(fills) THEN 0 ELSE 1)
       /\ Cites(m, "Win rate") = (IF WinRateGate(fills) THEN 0 ELSE 1)
       /\ Cites(m, "PnL") = (IF TotalPnlGate(fills) THEN 0 ELSE 1)
       /\ Cites(m, "Drawdown") = (IF DrawdownGate(fills) THEN 0 ELSE 1)
       /\ m.total_pnl = Sum(fills)
       /\ m.wins = Wins(fills)

\* C22: once an agent is persisted as revoked, no step submits an order on
\* its behalf.
C22_NoOrderAfterRevoked ==
  [][\A id \in EvalSlots :
       PersistedStatus(id) = "revoked" => orders'[id] = orders[id]]_vars

C24_AlreadyRegisteredFirst ==
  [][\A r \in EvalSlots :
       ( /\ req[r].kind = "idle"
         /\ req'[r].kind = "evaluate"
         /\ \E row \in agents :
              row.hyperliquid_address = req'[r].hyperliquid_address )
       => /\ req'[r].pc = "done"
          /\ req'[r].status = 200
          /\ req'[r].body = "already_registered"
          /\ req'[r].resAgent
               = getAgentByHyperliquidAddress(req'[r].hyperliquid_address)
          /\ req'[r].resMetrics = NoMetrics
          /\ agents' = agents
          /\ wallets' = wallets]_vars

\* C24 witness: a /evaluate was answered already_registered with the agent
\* stored for its address.
C24_Witness ==
  \E r \in EvalSlots :
    /\ req[r].body = "already_registered"
    /\ req[r].resAgent.id # NULL
    /\ req[r].resAgent = getAgentByHyperliquidAddress(req[r].hyperliquid_address)
    /\ \E w \in Wallets : wallets[w] = req[r].resAgent.id

C28_RestartPreservesPool ==
  [][Restart => \A w \in Wallets : wallets'[w] = wallets[w]]_vars

\* C29: for every row of the agents table exactly one wallet has assigned_to
\* equal to the row's id, and it is the row's funded_wallet_address.
C29_AgentWalletBinding ==
  \A row \in agents :
    {w \in Wallets : wallets[w] = row.id} = {row.funded_wallet_address}

QuietKinds == {"cancel", "open_orders", "positions", "stats", "agents"}

AgentValues(agent) ==
  {agent.id, agent.hl_address, agent.hyperliquid_address,
   agent.funded_wallet_address, agent.initial_capital, agent.current_pnl,
   agent.agent_profit, agent.firm_profit, agent.trade_count}

\* the values of a response body: the agent id echoed, the agent, the
\* metrics, the balance and the listed agents
ResponseValues(q) ==
  {q.agent_id, q.resBalance, q.resMetrics.total_pnl, q.resMetrics.win_rate,
   q.resMetrics.total_trades}
    \cup AgentValues(q.resAgent)
    \cup UNION {AgentValues(agent) : agent \in q.resAgents}

\* C32: no response of any endpoint contains the private key of a funded
\* wallet, whatever requests were made before.
C32_NoKeyInResponse ==
  \A r \in Slots :
    req[r].pc = "done"
      => \A w \in Wallets : privateKey(w) \notin ResponseValues(req[r])

\* C32 witness: an onboarding was answered with the agent and the address of
\* its funded wallet, and a later request that signs with the wallet's key,
\* or reads the agent back, is in flight or answered
C32_Witness ==
  /\ \E r \in EvalSlots :
       /\ Approved(r)
       /\ req[r].resAgent.funded_wallet_address \in Wallets
  /\ \E r \in TradeSlots :
       \/ req[r].account # NoAccount
       \/ req[r].kind = "cancel" /\ req[r].body = "executed"
       \/ req[r].kind = "stats" /\ req[r].status = 200
       \/ req[r].kind = "agents" /\ req[r].resAgents # {}

====
